---- MODULE Spec2Model ----
(***************************************************************************)
(* Model of the App Factory build registry (build_registry.py) and build   *)
(* validator (build_validator.py).                                         *)
(*                                                                         *)
(* Text values that the code concatenates, slices or matches are sequences *)
(* of one-character strings; values the code only stores and compares are  *)
(* TLA+ strings.  Python's None is the value None below.  A JSON object is *)
(* a function whose DOMAIN is the set of keys present.                     *)
(***************************************************************************)
EXTENDS Integers, Sequences, FiniteSets, TLC

VARIABLES
    disk,       \* the registry file builds/build_index.json
    now,        \* the clock read by datetime.now(); one tick per call
    call,       \* the last registry operation: its arguments, locals and outcome
    procs,      \* concurrent register calls: position and locals of each caller
    issued,     \* (build_path, additional_data, id) of generate_build_id calls
    build,      \* the build directory handed to validate_expo_build
    pc,         \* position inside validate_expo_build
    report,     \* validation_report
    cwd,        \* the process working directory
    original_cwd, \* local of validate_expo_build
    entry_cwd,  \* the working directory when validate_expo_build was called
    ran,        \* the external commands launched so far, in order
    chdirs,     \* the os.chdir calls made so far, in order
    slug,       \* argument of generate_bundle_identifier
    max_length, \* argument of generate_bundle_identifier
    bundle_id   \* result of generate_bundle_identifier

registry_vars  == <<disk, now, call>>
race_vars      == <<procs>>
id_vars        == <<issued>>
validator_vars == <<build, pc, report, cwd, original_cwd, entry_cwd, ran, chdirs>>
bundle_vars    == <<slug, max_length, bundle_id>>
vars == <<disk, now, call, procs, issued, build, pc, report, cwd, original_cwd,
          entry_cwd, ran, chdirs, slug, max_length, bundle_id>>

----------------------------------------------------------------------------
(* Python values *)

None == <<"None">>

\* bool(x) of an Optional[str]
truthy(x) == x # None /\ Len(x) > 0

\* x or y
py_or(x, y) == IF truthy(x) THEN x ELSE y

\* s.startswith(p)
startswith(s, p) == Len(s) >= Len(p) /\ SubSeq(s, 1, Len(p)) = p

\* s[:n], negative n counting from the end as Python slices do
slice_to(s, n) ==
    IF n >= 0 THEN SubSeq(s, 1, IF n < Len(s) THEN n ELSE Len(s))
    ELSE SubSeq(s, 1, IF Len(s) + n > 0 THEN Len(s) + n ELSE 0)

Min(S) == CHOOSE x \in S : \A y \in S : x <= y

----------------------------------------------------------------------------
(* build_registry.py *)

\* Bounds of the registry model
MaxCalls == 3

\* States of the registry file.  "garbage" is text that is not JSON (an
\* empty or truncated file included), "undecodable" holds bytes that are not
\* valid text, "unreadable" cannot be opened.
NoDoc == [none |-> TRUE]
Absent      == [kind |-> "absent",      doc |-> NoDoc]
Garbage     == [kind |-> "garbage",     doc |-> NoDoc]
Undecodable == [kind |-> "undecodable", doc |-> NoDoc]
Unreadable  == [kind |-> "unreadable",  doc |-> NoDoc]

\* json.dump(doc, f) into the file, and json.load(f) of a file holding JSON
json_dump(doc) == [kind |-> "json", doc |-> doc]
json_load(file) == file.doc

\* Outcomes of writing the file: written; failed before the file was opened
\* (mkdir or open raised); failed after open(path, 'w') truncated it.
WriteOutcomes == {"ok", "fail_before", "fail_partial"}

empty_registry(t) == [updatedAt |-> t, builds |-> <<>>]

\* load_build_registry(): exc is the exception that leaves the function
load_build_registry(file, t, w) ==
    IF file.kind = "absent" THEN
        CASE w = "ok" ->
               [exc |-> "none", value |-> empty_registry(t),
                file |-> json_dump(empty_registry(t))]
          [] w = "fail_before" ->
               [exc |-> "IOError", value |-> NoDoc, file |-> file]
          [] w = "fail_partial" ->
               [exc |-> "IOError", value |-> NoDoc, file |-> Garbage]
    ELSE
        CASE file.kind = "json" ->
               [exc |-> "none", value |-> json_load(file), file |-> file]
          [] file.kind \in {"garbage", "unreadable"} ->
               \* JSONDecodeError, IOError: caught
               [exc |-> "none", value |-> empty_registry(t), file |-> file]
          [] file.kind = "undecodable" ->
               \* UnicodeDecodeError is neither JSONDecodeError nor IOError
               [exc |-> "UnicodeDecodeError", value |-> NoDoc, file |-> file]

\* A save that reports success without having written the file
save_build_registry_unwritten(registry, file, t, w) ==
    [ret |-> (w = "ok"), file |-> IF w = "fail_partial" THEN Garbage ELSE file]

\* save_build_registry(registry)
save_build_registry(registry, file, t, w) ==
    CASE w = "ok" ->
           [ret |-> TRUE,
            file |-> json_dump(("updatedAt" :> t) @@ registry)]
      [] w = "fail_before"  -> [ret |-> FALSE, file |-> file]
      [] w = "fail_partial" -> [ret |-> FALSE, file |-> Garbage]

\* hashlib.sha256(s).hexdigest()[:16], taken as collision-free on its input
sha256_hex16(s) == <<"sha256">> \o s

\* generate_build_id(build_path, additional_data)
generate_build_id(build_path, additional_data) ==
    LET hash_input == IF truthy(additional_data)
                      THEN build_path \o additional_data
                      ELSE build_path
    IN sha256_hex16(hash_input)

\* A scan that never finds the record
find_existing_never(builds, build_id) == [exc |-> "none", index |-> 0]

\* The scan of register_build: the first index whose buildId is build_id
\* (0 for None); KeyError when a record without buildId is met first.
find_existing(builds, build_id) ==
    LET bad  == {i \in 1..Len(builds) : "buildId" \notin DOMAIN builds[i]}
        hits == {i \in 1..Len(builds) :
                    /\ "buildId" \in DOMAIN builds[i]
                    /\ builds[i].buildId = build_id}
    IN IF bad # {} /\ (hits = {} \/ Min(bad) < Min(hits))
       THEN [exc |-> "KeyError", index |-> 0]
       ELSE [exc |-> "none", index |-> IF hits = {} THEN 0 ELSE Min(hits)]

\* build_entry of register_build
build_entry(a, build_id, t) ==
    [buildId   |-> build_id,
     name      |-> a.name,
     slug      |-> a.slug,
     origin    |-> [mode |-> a.mode, runId |-> a.run_id,
                    ideaSlug |-> a.idea_slug,
                    dreamPromptHash |-> a.dream_prompt_hash],
     framework |-> a.framework,
     buildPath |-> a.build_path,
     status    |-> a.status,
     createdAt |-> t,
     launch    |-> [type |-> "expo", recommended |-> a.launch_command,
                    notes |-> a.notes],
     preview   |-> [enabled |-> (a.status = "success"),
                    instructions |-> <<<<"c", "d", " ">> \o a.build_path,
                                       "npm install",
                                       "npx expo install --check",
                                       a.launch_command>>]]

\* An update that drops the old record and puts the new one at the end
update_or_append_moved(builds, existing_build, entry) ==
    IF existing_build # 0
    THEN Append(SubSeq(builds, 1, existing_build - 1)
                \o SubSeq(builds, existing_build + 1, Len(builds)), entry)
    ELSE Append(builds, entry)

\* "Update or append build"
update_or_append(builds, existing_build, entry) ==
    IF existing_build # 0
    THEN [builds EXCEPT ![existing_build] = entry]
    ELSE Append(builds, entry)

NoCall == [op |-> "none", exc |-> "none"]

\* register_build(...): the locals and the outcome of one call on `file`
register_build(file, a, t, w1, w2) ==
    LET loaded   == load_build_registry(file, t, w1)
        registry == loaded.value
        build_id == generate_build_id(a.build_path,
                                      py_or(a.dream_prompt_hash, a.run_id))
        raised(e) == [op |-> "register", exc |-> e, args |-> a,
                      build_id |-> build_id, file |-> loaded.file]
    IN IF loaded.exc # "none" THEN raised(loaded.exc)
       ELSE IF "builds" \notin DOMAIN registry THEN raised("KeyError")
       ELSE LET found == find_existing(registry.builds, build_id) IN
            IF found.exc # "none" THEN raised(found.exc)
            ELSE LET entry  == build_entry(a, build_id, t)
                     builds == update_or_append(registry.builds, found.index, entry)
                     saved  == save_build_registry(
                                   [registry EXCEPT !.builds = builds],
                                   loaded.file, t, w2)
                 IN [op |-> "register", exc |-> "none", args |-> a,
                     build_id |-> build_id, file |-> saved.file,
                     loaded |-> registry.builds,
                     existing_build |-> found.index,
                     builds |-> builds, success |-> saved.ret]

RegisterDefaults == [framework |-> "expo", launch_command |-> "npx expo start"]

\* register_pipeline_build(...)
register_pipeline_build(name, slug_, build_path, status, run_id, idea_slug, notes) ==
    [name |-> name, slug |-> slug_, mode |-> "pipeline", build_path |-> build_path,
     status |-> status, run_id |-> run_id, idea_slug |-> idea_slug,
     dream_prompt_hash |-> None, framework |-> RegisterDefaults.framework,
     launch_command |-> RegisterDefaults.launch_command, notes |-> notes]

\* register_dream_build(...)
register_dream_build(name, slug_, build_path, status, run_id, dream_prompt_hash, notes) ==
    [name |-> name, slug |-> slug_, mode |-> "dream", build_path |-> build_path,
     status |-> status, run_id |-> run_id, idea_slug |-> None,
     dream_prompt_hash |-> dream_prompt_hash,
     framework |-> RegisterDefaults.framework,
     launch_command |-> RegisterDefaults.launch_command, notes |-> notes]

\* get_builds(): registry.get("builds", [])
get_builds(file, t, w) ==
    LET loaded == load_build_registry(file, t, w) IN
    IF loaded.exc # "none"
    THEN [exc |-> loaded.exc, value |-> <<>>, file |-> loaded.file]
    ELSE [exc |-> "none", file |-> loaded.file,
          value |-> IF "builds" \in DOMAIN loaded.value
                    THEN loaded.value.builds ELSE <<>>]

\* What a later load of the file sees as its builds list
persisted_builds(file) ==
    IF file.kind = "json" /\ "builds" \in DOMAIN file.doc
    THEN file.doc.builds ELSE <<>>

\* get_build_by_id(build_id): the first record with that id, None if none
get_build_by_id(file, build_id, t, w) ==
    LET got  == get_builds(file, t, w)
        bad  == {i \in 1..Len(got.value) : "buildId" \notin DOMAIN got.value[i]}
        hits == {i \in 1..Len(got.value) :
                    /\ "buildId" \in DOMAIN got.value[i]
                    /\ got.value[i].buildId = build_id}
    IN IF got.exc # "none"
       THEN [exc |-> got.exc, found |-> FALSE, file |-> got.file]
       ELSE IF bad # {} /\ (hits = {} \/ Min(bad) < Min(hits))
       THEN [exc |-> "KeyError", found |-> FALSE, file |-> got.file]
       ELSE [exc |-> "none", found |-> hits # {}, file |-> got.file]

\* required_fields and origin_required of validate_build_registry
required_fields == <<"buildId", "name", "slug", "origin", "buildPath",
                     "status", "createdAt">>
origin_required == <<"mode">>

\* d.get(k): None when the key is absent
dict_get(d, k) == IF k \in DOMAIN d THEN d[k] ELSE None

Error(i, msg, field) == [index |-> i, msg |-> msg, field |-> field]

\* The errors validate_build_registry appends for the record at index i
\* (indices count from 0, as enumerate does)
validate_entry(i, b) ==
    LET missing  == SelectSeq(required_fields, LAMBDA f : f \notin DOMAIN b)
        omissing == IF "origin" \in DOMAIN b
                    THEN SelectSeq(origin_required,
                                   LAMBDA f : f \notin DOMAIN b.origin)
                    ELSE <<>>
        mode     == IF "origin" \in DOMAIN b /\ "mode" \in DOMAIN b.origin
                    THEN b.origin.mode ELSE "None"
        modeErr  == IF "origin" \notin DOMAIN b THEN <<>>
                    ELSE IF mode = "dream"
                            /\ ~truthy(dict_get(b.origin, "dreamPromptHash"))
                    THEN <<Error(i, "dream mode build missing dreamPromptHash", "")>>
                    ELSE IF mode = "pipeline"
                            /\ ~truthy(dict_get(b.origin, "runId"))
                    THEN <<Error(i, "pipeline mode build missing runId", "")>>
                    ELSE <<>>
    IN [k \in 1..Len(missing) |->
            Error(i, "missing required field", missing[k])]
       \o [k \in 1..Len(omissing) |->
            Error(i, "origin missing required field", omissing[k])]
       \o modeErr

RECURSIVE validate_entries(_, _)
validate_entries(builds, n) ==
    IF n = 0 THEN <<>>
    ELSE validate_entries(builds, n - 1) \o validate_entry(n - 1, builds[n])

\* validate_build_registry(): the ordered error list
validate_build_registry(file, t) ==
    IF file.kind = "absent"
    THEN <<Error(-1, "Build registry not found", "")>>
    ELSE LET loaded == load_build_registry(file, t, "ok") IN
         IF loaded.exc # "none"
         THEN <<Error(-1, "Could not load registry", loaded.exc)>>
         ELSE IF "builds" \notin DOMAIN loaded.value
         THEN <<Error(-1, "Registry missing 'builds' field", "")>>
         ELSE validate_entries(loaded.value.builds, Len(loaded.value.builds))

----------------------------------------------------------------------------
(* Arguments the callers pass *)

Paths    == {<<"a">>, <<"a", "b">>}
RunIds   == {<<"c">>, <<"b", "c">>}
Hashes   == {<<>>, <<"b", "c">>}
Statuses == {"success", "failed"}

PipelineCalls ==
    {register_pipeline_build("App", "app", p, st, r, <<"i">>, "")
        : p \in Paths, st \in Statuses, r \in RunIds}

DreamCalls ==
    {register_dream_build("App", "app", p, "success", <<"c">>, h, "")
        : p \in Paths, h \in Hashes}

\* The variables of the components a specification does not exercise
RegistryIdle  == disk = Absent /\ now = 0 /\ call = NoCall
RaceIdle      == procs = <<>>
IdsIdle       == issued = {}
ValidatorIdle == /\ build = NoDoc /\ pc = "idle" /\ report = NoDoc
                 /\ cwd = "/" /\ original_cwd = "/" /\ entry_cwd = "/"
                 /\ ran = <<>> /\ chdirs = <<>>
BundleIdle    == slug = <<>> /\ max_length = 0 /\ bundle_id = None

----------------------------------------------------------------------------
(* Sequential use of the registry, starting from an empty registry *)

Init ==
    /\ disk \in {Absent, json_dump(empty_registry(0))}
    /\ now = 0
    /\ call = NoCall
    /\ RaceIdle /\ IdsIdle /\ ValidatorIdle /\ BundleIdle

\* One whole call of register_build with arguments a
Register(a) ==
    /\ now < MaxCalls
    /\ \E w1 \in WriteOutcomes, w2 \in WriteOutcomes :
          /\ disk.kind = "absent" \/ w1 = "ok"
          /\ LET r == register_build(disk, a, now, w1, w2) IN
                /\ r.exc = "none" \/ w2 = "ok"
                /\ disk' = r.file
                /\ call' = [k \in DOMAIN r \ {"file"} |-> r[k]]
    /\ now' = now + 1

RegisterPipelineBuild ==
    /\ \E a \in PipelineCalls : Register(a)
    /\ UNCHANGED <<race_vars, id_vars, validator_vars, bundle_vars>>

RegisterDreamBuild ==
    /\ \E a \in DreamCalls : Register(a)
    /\ UNCHANGED <<race_vars, id_vars, validator_vars, bundle_vars>>

Next == RegisterPipelineBuild \/ RegisterDreamBuild

Spec == Init /\ [][Next]_vars

----------------------------------------------------------------------------
(* Any registry file, one call on it *)

MaxFileRecords == 2

\* origin objects a file may hold: each key present or not, tokens None or set
FileOrigins ==
    {[k \in ({"ideaSlug"} \cup (IF m = "absent" THEN {} ELSE {"mode"})
                          \cup (IF r = <<"absent">> THEN {} ELSE {"runId"})
                          \cup (IF h = <<"absent">> THEN {} ELSE {"dreamPromptHash"}))
        |-> CASE k = "mode" -> m
              [] k = "runId" -> r
              [] k = "dreamPromptHash" -> h
              [] k = "ideaSlug" -> None]
     : m \in {"absent", "dream", "pipeline", "other"},
       r \in {None, <<"c">>},
       h \in {<<"absent">>, None, <<"b", "c">>}}

FileRecord(o) ==
    [buildId |-> generate_build_id(<<"a">>, <<"c">>), name |-> "App",
     slug |-> "app", origin |-> o, buildPath |-> <<"a">>,
     status |-> "success", createdAt |-> 0]

WithoutKey(b, f) == [k \in DOMAIN b \ {f} |-> b[k]]

GoodOrigin == [mode |-> "pipeline", runId |-> <<"c">>, ideaSlug |-> None,
               dreamPromptHash |-> None]

\* Records a file may hold: every origin shape, and a sound record with one
\* required field taken away
FileRecords ==
    {FileRecord(o) : o \in FileOrigins}
    \cup {WithoutKey(FileRecord(GoodOrigin), required_fields[k])
            : k \in 1..Len(required_fields)}

RECURSIVE SeqsUpTo(_, _)
SeqsUpTo(S, n) ==
    IF n = 0 THEN {<<>>}
    ELSE LET shorter == SeqsUpTo(S, n - 1) IN
         shorter \cup {Append(q, x) : q \in {r \in shorter : Len(r) = n - 1}, x \in S}

Files ==
    {Absent, Garbage, Undecodable, Unreadable, json_dump([updatedAt |-> 0])}
    \cup {json_dump([updatedAt |-> 0, builds |-> bs])
            : bs \in SeqsUpTo(FileRecords, MaxFileRecords)}

InitFiles ==
    /\ disk \in Files
    /\ now = 1
    /\ call = NoCall
    /\ RaceIdle /\ IdsIdle /\ ValidatorIdle /\ BundleIdle

\* load_build_registry() called on the file
Load ==
    /\ call.op = "none"
    /\ \E w \in WriteOutcomes :
          /\ disk.kind = "absent" \/ w = "ok"
          /\ LET r == load_build_registry(disk, now, w) IN
                /\ disk' = r.file
                /\ call' = [op |-> "load", exc |-> r.exc, before |-> disk,
                            value |-> r.value]
    /\ now' = now + 1
    /\ UNCHANGED <<race_vars, id_vars, validator_vars, bundle_vars>>

\* validate_build_registry() called on the file
Validate ==
    /\ call.op = "none"
    /\ call' = [op |-> "validate", exc |-> "none", before |-> disk,
                errors |-> validate_build_registry(disk, now)]
    /\ now' = now + 1
    /\ UNCHANGED <<disk, race_vars, id_vars, validator_vars, bundle_vars>>

\* get_builds() called on the file
GetBuilds ==
    /\ call.op = "none"
    /\ \E w \in WriteOutcomes :
          /\ disk.kind = "absent" \/ w = "ok"
          /\ LET r == get_builds(disk, now, w) IN
                /\ disk' = r.file
                /\ call' = [op |-> "get_builds", exc |-> r.exc, before |-> disk,
                            value |-> r.value]
    /\ now' = now + 1
    /\ UNCHANGED <<race_vars, id_vars, validator_vars, bundle_vars>>

\* Calls made on an arbitrary file: one whose id the file's records carry,
\* others with ids of their own
FileCalls == {a \in PipelineCalls : a.status = "success"}

\* register_pipeline_build(...) called on the file
RegisterOnFile ==
    /\ call.op = "none"
    /\ \E a \in FileCalls, w1 \in WriteOutcomes, w2 \in WriteOutcomes :
          /\ disk.kind = "absent" \/ w1 = "ok"
          /\ LET r == register_build(disk, a, now, w1, w2) IN
                /\ r.exc = "none" \/ w2 = "ok"
                /\ disk' = r.file
                /\ call' = [k \in (DOMAIN r \ {"file"}) \cup {"before", "write"} |->
                              CASE k = "before" -> disk
                                [] k = "write" -> w2
                                [] OTHER -> r[k]]
    /\ now' = now + 1
    /\ UNCHANGED <<race_vars, id_vars, validator_vars, bundle_vars>>

NextFiles == Load \/ Validate \/ GetBuilds \/ RegisterOnFile

SpecFiles == InitFiles /\ [][NextFiles]_vars

----------------------------------------------------------------------------
(* generate_build_id on its own *)

MaxIssued == 3

IdPaths  == Paths \cup {<<"a", "b", "c">>}
IdExtras == {None, <<>>, <<"c">>, <<"b", "c">>}

InitIds ==
    /\ issued = {}
    /\ RegistryIdle /\ RaceIdle /\ ValidatorIdle /\ BundleIdle

GenerateBuildId ==
    /\ Cardinality(issued) < MaxIssued
    /\ \E p \in IdPaths, x \in IdExtras :
          issued' = issued \cup {[build_path |-> p, additional_data |-> x,
                                  id |-> generate_build_id(p, x)]}
    /\ UNCHANGED <<registry_vars, race_vars, validator_vars, bundle_vars>>

NextIds == GenerateBuildId

SpecIds == InitIds /\ [][NextIds]_vars

----------------------------------------------------------------------------
(* Properties of the registry *)

ids_of(builds) == {builds[i].buildId : i \in 1..Len(builds)}

\* C1: starting from an empty registry, after any sequence of register
\* calls the persisted builds list holds at most one record per buildId.
C1_OneRecordPerBuildId ==
    LET builds == persisted_builds(disk) IN
    \A i \in 1..Len(builds), j \in 1..Len(builds) :
        i # j => builds[i].buildId # builds[j].buildId

\* A re-registration has been saved into a registry of two or more records.
C1_Witness ==
    /\ call.op = "register" /\ call.exc = "none" /\ call.success
    /\ call.existing_build # 0
    /\ Len(persisted_builds(disk)) >= 2

\* C2: a register call whose buildId is already in the registry keeps the
\* length of the builds list, puts the new record at the position of the old
\* one and leaves every other record as it was; a call with a new buildId
\* appends the new record and leaves the earlier records as they were.  The
\* list saved is the list so built.
C2_RegisterFrame ==
    (call.op = "register" /\ call.exc = "none") =>
        LET old == call.loaded
            new == call.builds
            a   == call.args
            isNew(b) == /\ b.buildId = call.build_id
                        /\ b.name = a.name /\ b.slug = a.slug
                        /\ b.status = a.status /\ b.buildPath = a.build_path
                        /\ b.origin.mode = a.mode /\ b.createdAt = now - 1
            exists == \E i \in 1..Len(old) : old[i].buildId = call.build_id
        IN /\ exists =>
                /\ Len(new) = Len(old)
                /\ \E k \in 1..Len(old) :
                      /\ old[k].buildId = call.build_id
                      /\ isNew(new[k])
                      /\ \A j \in 1..Len(old) : j # k => new[j] = old[j]
           /\ ~exists =>
                /\ Len(new) = Len(old) + 1
                /\ isNew(new[Len(new)])
                /\ \A j \in 1..Len(old) : new[j] = old[j]
           /\ call.success => persisted_builds(disk) = new

\* The first of two records has been replaced by a re-registration.
C2_Witness ==
    /\ call.op = "register" /\ call.exc = "none" /\ call.success
    /\ call.existing_build = 1
    /\ Len(call.loaded) = 2
    /\ call.builds[1] # call.loaded[1]

\* C3: generate_build_id gives one id per (build_path, additional_data)
\* pair, and distinct pairs get distinct ids.
C3_IdsDistinguishPairs ==
    \A x \in issued, y \in issued :
        /\ (x.build_path = y.build_path /\ x.additional_data = y.additional_data)
              => x.id = y.id
        /\ (x.build_path # y.build_path \/ x.additional_data # y.additional_data)
              => x.id # y.id

\* The registry a reader of the claim takes for structurally valid
has_token(o, k) == k \in DOMAIN o /\ truthy(o[k])

record_valid(b) ==
    /\ \A k \in 1..Len(required_fields) : required_fields[k] \in DOMAIN b
    /\ "mode" \in DOMAIN b.origin
    /\ b.origin.mode = "dream" => has_token(b.origin, "dreamPromptHash")
    /\ b.origin.mode = "pipeline" => has_token(b.origin, "runId")

structurally_valid(file) ==
    /\ file.kind = "json"
    /\ "builds" \in DOMAIN file.doc
    /\ \A i \in 1..Len(file.doc.builds) : record_valid(file.doc.builds[i])

\* C5: validate() returns the empty list exactly when the registry file is
\* structurally valid, and names the index of every record that breaks a
\* record rule.
C5_ValidateExactlyWhenValid ==
    call.op = "validate" =>
        /\ (call.errors = <<>>) <=> structurally_valid(call.before)
        /\ (call.before.kind = "json" /\ "builds" \in DOMAIN call.before.doc) =>
              \A i \in 1..Len(call.before.doc.builds) :
                  ~record_valid(call.before.doc.builds[i]) =>
                      \E k \in 1..Len(call.errors) : call.errors[k].index = i - 1

\* C10: load() on a file that exists but cannot be parsed or read returns a
\* registry with an empty builds list and leaves the file as it was; load()
\* on an absent file creates the file with an empty builds list and returns
\* that registry.
C10_LoadDegradesOrCreates ==
    call.op = "load" =>
        /\ call.before.kind \in {"garbage", "undecodable", "unreadable"} =>
              /\ call.exc = "none"
              /\ "builds" \in DOMAIN call.value /\ call.value.builds = <<>>
              /\ disk = call.before
        /\ call.before.kind = "absent" =>
              /\ call.exc = "none"
              /\ "builds" \in DOMAIN call.value /\ call.value.builds = <<>>
              /\ disk = json_dump(call.value)

----------------------------------------------------------------------------
(* build_validator.py: generate_bundle_identifier *)

MaxSlugLen     == 3
MaxLengthBound == 20
DefaultMaxLength == 50

\* One character of each class the function tells apart
SlugChars == {"a", "B", "1", "-", "_", " ", ".", "!"}

\* str.lower() on one character
lower_char(c) ==
    CASE c = "A" -> "a" [] c = "B" -> "b" [] c = "C" -> "c" [] OTHER -> c

\* The classes of the three patterns
Separators == {"_", "-", " "}
LowerAlnumDot ==
    {"a", "b", "c", "d", "e", "f", "g", "h", "i", "j", "k", "l", "m", "n",
     "o", "p", "q", "r", "s", "t", "u", "v", "w", "x", "y", "z",
     "0", "1", "2", "3", "4", "5", "6", "7", "8", "9", "."}

RECURSIVE drop_while(_, _)
drop_while(s, C) ==
    IF s # <<>> /\ Head(s) \in C THEN drop_while(Tail(s), C) ELSE s

\* re.sub('[C]+', r, s): every maximal run of characters of C becomes r
RECURSIVE sub_runs(_, _, _)
sub_runs(s, C, r) ==
    IF s = <<>> THEN <<>>
    ELSE IF Head(s) \in C THEN r \o sub_runs(drop_while(Tail(s), C), C, r)
    ELSE <<Head(s)>> \o sub_runs(Tail(s), C, r)

RECURSIVE rstrip(_, _)
rstrip(s, C) ==
    IF s # <<>> /\ s[Len(s)] \in C THEN rstrip(SubSeq(s, 1, Len(s) - 1), C) ELSE s

\* s.strip(chars)
strip(s, C) == rstrip(drop_while(s, C), C)

\* clean_slug of generate_bundle_identifier, after its five steps
clean_slug_of(slug_) ==
    LET lowered   == [i \in 1..Len(slug_) |-> lower_char(slug_[i])]
        dotted    == sub_runs(lowered, Separators, <<".">>)
        kept      == SelectSeq(dotted, LAMBDA c : c \in LowerAlnumDot)
        collapsed == sub_runs(kept, {"."}, <<".">>)
    IN strip(collapsed, {"."})

base == <<"c", "o", "m", ".", "a", "p", "p", "f", "a", "c", "t", "o", "r", "y">>

\* available_length off by the dot that follows base
available_length_no_dot(max_length_) == max_length_ - Len(base)

\* available_length = max_length - len(base) - 1
available_length(max_length_) == max_length_ - Len(base) - 1

\* generate_bundle_identifier(slug, max_length)
generate_bundle_identifier(slug_, max_length_) ==
    LET clean_slug == clean_slug_of(slug_)
        full == IF clean_slug # <<>>
                THEN base \o <<".">> \o clean_slug
                ELSE base \o <<".", "a", "p", "p">>
    IN IF Len(full) > max_length_
       THEN base \o <<".">> \o slice_to(clean_slug, available_length(max_length_))
       ELSE full

RECURSIVE StringsUpTo(_, _)
StringsUpTo(C, n) ==
    IF n = 0 THEN {<<>>}
    ELSE LET shorter == StringsUpTo(C, n - 1) IN
         shorter \cup {Append(q, c) : q \in {r \in shorter : Len(r) = n - 1}, c \in C}

InitBundle ==
    /\ slug \in StringsUpTo(SlugChars, MaxSlugLen)
    /\ max_length \in (0..MaxLengthBound) \cup {DefaultMaxLength}
    /\ bundle_id = None
    /\ RegistryIdle /\ RaceIdle /\ IdsIdle /\ ValidatorIdle

GenerateBundleIdentifier ==
    /\ bundle_id = None
    /\ bundle_id' = generate_bundle_identifier(slug, max_length)
    /\ UNCHANGED <<slug, max_length, registry_vars, race_vars, id_vars,
                   validator_vars>>

NextBundle == GenerateBundleIdentifier

SpecBundle == InitBundle /\ [][NextBundle]_vars

org_prefix == base \o <<".">>

is_prefix_of(p, s) == Len(p) <= Len(s) /\ SubSeq(s, 1, Len(p)) = p

\* C4 as stated: for every slug and every max_length the identifier is no
\* longer than max_length and starts with the whole 'com.appfactory.'.
C4_AnyMaxLength ==
    bundle_id # None =>
        /\ Len(bundle_id) <= max_length
        /\ startswith(bundle_id, org_prefix)

\* C4 amended: for every slug and every max_length of at least 15, the
\* length of 'com.appfactory.', the identifier is no longer than max_length,
\* starts with the whole prefix, and what follows the prefix is a leading
\* part of the normalised slug ('app' for an empty one), all of it when it
\* fits.
C4_LengthBounded ==
    (bundle_id # None /\ max_length >= Len(org_prefix)) =>
        LET clean  == clean_slug_of(slug)
            wanted == IF clean = <<>> THEN <<"a", "p", "p">> ELSE clean
            rest   == SubSeq(bundle_id, Len(org_prefix) + 1, Len(bundle_id))
        IN /\ Len(bundle_id) <= max_length
           /\ startswith(bundle_id, org_prefix)
           /\ is_prefix_of(rest, wanted)
           /\ Len(org_prefix) + Len(wanted) <= max_length => rest = wanted

\* An identifier whose slug part was cut short to fit max_length.
C4_Witness ==
    /\ bundle_id # None
    /\ max_length >= Len(org_prefix)
    /\ Len(clean_slug_of(slug)) = 3
    /\ Len(bundle_id) = max_length
    /\ Len(bundle_id) = Len(org_prefix) + 2

----------------------------------------------------------------------------
(* build_validator.py: run_command and validate_expo_build *)

DefaultTimeout == 30

\* What the operating system does with a launched command: it exits with a
\* return code and output, it outlives the timeout, or it cannot be launched.
Exit(rc, out) == [kind |-> "exit", returncode |-> rc, stdout |-> out]
TimedOut      == [kind |-> "timeout", returncode |-> 0, stdout |-> <<>>]
LaunchFailed  == [kind |-> "oserror", returncode |-> 0, stdout |-> <<>>]

\* run_command(command): the result dictionary
run_command(command, o) ==
    CASE o.kind = "exit" ->
           [command |-> command, returncode |-> o.returncode,
            stdout |-> o.stdout, stderr |-> "",
            success |-> (o.returncode = 0)]
      [] o.kind = "timeout" ->
           [command |-> command, returncode |-> -1, stdout |-> <<>>,
            stderr |-> "Command timed out after 30s", success |-> FALSE]
      [] o.kind = "oserror" ->
           [command |-> command, returncode |-> -1, stdout |-> <<>>,
            stderr |-> "str(e)", success |-> FALSE]

\* get_node_version(), get_npm_version()
get_version(command, o) ==
    LET result == run_command(command, o) IN
    IF result.success THEN result.stdout ELSE None

\* validation_report as first built
initial_report(build_path, node, npm, t) ==
    [validatedAt |-> t,
     buildPath |-> build_path,
     nodeVersion |-> node,
     npmVersion |-> npm,
     packageManager |-> "npm",
     validation |-> [packageJsonExists |-> FALSE,
                     appJsonExists |-> FALSE,
                     hasValidBundleIdentifier |-> FALSE,
                     hasValidAndroidPackage |-> FALSE,
                     hasMandatoryFiles |-> FALSE,
                     expoInstallCheck |-> FALSE],
     expo |-> [version |-> None, sdkVersion |-> None, config |-> NoDoc],
     dependencies |-> [strategy |-> "expo-install-compatibility",
                       expoModules |-> <<>>, issues |-> <<>>],
     commands |-> <<>>,
     errors |-> <<>>,
     warnings |-> <<>>]

\* report["commands"][name] = result; the dictionary keeps insertion order
set_command(rep, name, result) ==
    [rep EXCEPT !.commands = Append(@, [name |-> name, result |-> result])]

add_error(rep, msg)   == [rep EXCEPT !.errors = Append(@, msg)]
add_warning(rep, msg) == [rep EXCEPT !.warnings = Append(@, msg)]

expo_dash == <<"e", "x", "p", "o", "-">>
appfactory_prefix ==
    <<"c", "o", "m", ".", "a", "p", "p", "f", "a", "c", "t", "o", "r", "y", ".">>

\* "~" in version
contains(s, c) == \E i \in 1..Len(s) : s[i] = c

\* The package.json block
check_package_json(rep, p) ==
    IF p.kind = "absent" THEN add_error(rep, "package.json not found")
    ELSE LET r1 == [rep EXCEPT !.validation.packageJsonExists = TRUE] IN
         IF p.kind = "unparseable"
         THEN add_error(r1, "Could not parse package.json")
         ELSE LET deps == p.dependencies
                  expo_modules == SelectSeq(deps,
                                     LAMBDA d : startswith(d.name, expo_dash))
                  hard == SelectSeq(expo_modules,
                             LAMBDA d : /\ Len(d.version) > 0
                                        /\ ~startswith(d.version, <<"^">>)
                                        /\ contains(d.version, "~"))
              IN [r1 EXCEPT
                    !.dependencies.expoModules =
                        [i \in 1..Len(expo_modules) |-> expo_modules[i].name],
                    !.dependencies.issues = hard]

\* One identifier of the app.json block
check_identifier(rep, id, flag, warning, error) ==
    IF truthy(id)
    THEN LET r1 == [rep EXCEPT !.validation[flag] = TRUE] IN
         IF ~startswith(id, appfactory_prefix) THEN add_warning(r1, warning)
         ELSE r1
    ELSE add_error(rep, error)

\* The app.json block
check_app_json(rep, a) ==
    IF a.kind = "absent" THEN add_error(rep, "app.json not found")
    ELSE LET r1 == [rep EXCEPT !.validation.appJsonExists = TRUE] IN
         IF a.kind = "unparseable"
         THEN add_error(r1, "Could not parse app.json")
         ELSE check_identifier(
                  check_identifier(r1, a.ios_bundle, "hasValidBundleIdentifier",
                      "Bundle identifier doesn't follow com.appfactory.* pattern",
                      "Missing ios.bundleIdentifier in app.json"),
                  a.android_package, "hasValidAndroidPackage",
                  "Android package doesn't follow com.appfactory.* pattern",
                  "Missing android.package in app.json")

mandatory_files == <<"App.js", "App.tsx", "app/_layout.tsx", "app/_layout.js",
                     "app/index.tsx", "app/index.js">>

\* The mandatory-files block
check_mandatory_files(rep, files) ==
    LET has_entry_point ==
            \E i \in 1..Len(mandatory_files) : mandatory_files[i] \in files
        r1 == [rep EXCEPT !.validation.hasMandatoryFiles = has_entry_point]
    IN IF ~has_entry_point THEN add_error(r1, "No valid entry point found")
       ELSE r1

\* json.loads of the text a config dump may print
json_loads(text) ==
    CASE text = <<"{sdk}">> ->
           [ok |-> TRUE, dict |-> TRUE,
            value |-> [expo |-> [sdkVersion |-> <<"5", "1">>]]]
      [] text = <<"{}">> ->
           [ok |-> TRUE, dict |-> TRUE, value |-> [empty |-> TRUE]]
      [] text = <<"[]">> ->
           [ok |-> TRUE, dict |-> FALSE, value |-> [list |-> <<>>]]
      [] OTHER -> [ok |-> FALSE, dict |-> FALSE, value |-> NoDoc]

\* "Check Expo version"
after_expo_version(rep, result) ==
    LET r1 == set_command(rep, "expo_version", result) IN
    IF result.success THEN [r1 EXCEPT !.expo.version = result.stdout] ELSE r1

\* "Check Expo config"
after_expo_config(rep, result) ==
    LET r1 == set_command(rep, "expo_config", result)
        parsed == json_loads(result.stdout)
    IN IF ~result.success THEN r1
       ELSE IF ~parsed.ok
       THEN add_warning(r1, "Could not parse expo config JSON")
       ELSE LET r2 == [r1 EXCEPT !.expo.config = parsed.value] IN
            IF ~parsed.dict
            THEN \* config_data.get raises, the bare except catches it
                 add_warning(r2, "Could not parse expo config JSON")
            ELSE [r2 EXCEPT !.expo.sdkVersion =
                     IF "expo" \in DOMAIN parsed.value
                     THEN parsed.value.expo.sdkVersion ELSE None]

\* An install check that reports its failure as an error
after_expo_install_check_as_error(rep, result) ==
    LET r1 == [set_command(rep, "expo_install_check", result)
                  EXCEPT !.validation.expoInstallCheck = result.success]
    IN IF ~result.success
       THEN add_error(r1, "Expo install check failed - dependencies may be incompatible")
       ELSE r1

\* "Check Expo install status"
after_expo_install_check(rep, result) ==
    LET r1 == [set_command(rep, "expo_install_check", result)
                  EXCEPT !.validation.expoInstallCheck = result.success]
    IN IF ~result.success
       THEN add_warning(r1, "Expo install check failed - dependencies may be incompatible")
       ELSE r1

\* "Check Expo doctor if available"
after_expo_doctor(rep, result) == set_command(rep, "expo_doctor", result)

\* A path check that never takes the early return
path_exists_always(b) == TRUE

\* build_path.exists()
path_exists(b) == b.kind # "missing"

\* A finally block that leaves the working directory where it is
restore_cwd_skipped(original, current) == current

\* finally: os.chdir(original_cwd)
restore_cwd(original, current) == original

----------------------------------------------------------------------------
(* Build directories and command outcomes *)

BuildPath == "/repo/builds/app"
Cwds == {"/repo", "/"}

NoPackageJson == [kind |-> "absent", dependencies |-> <<>>]
BadPackageJson == [kind |-> "unparseable", dependencies |-> <<>>]
Dep(n, v) == [name |-> n, version |-> v]
PackageJsons ==
    {NoPackageJson, BadPackageJson}
    \cup {[kind |-> "object", dependencies |-> d] : d \in
            {<<>>,
             <<Dep(<<"r", "n">>, <<"~", "1">>),
               Dep(expo_dash \o <<"f">>, <<"^", "1">>),
               Dep(expo_dash \o <<"g">>, <<"1", "~">>)>>}}

Identifiers == {None, appfactory_prefix \o <<"x">>, <<"o", "r", "g", ".", "x">>}
NoAppJson  == [kind |-> "absent", ios_bundle |-> None, android_package |-> None]
BadAppJson == [kind |-> "unparseable", ios_bundle |-> None, android_package |-> None]
AppJsons ==
    {NoAppJson, BadAppJson}
    \cup {[kind |-> "object", ios_bundle |-> i, android_package |-> a]
            : i \in Identifiers, a \in Identifiers}

FileSets == {{"index.js"}, {"README.md", "app/index.js"}}

\* A path that does not exist, a path that is a plain file, build directories
Builds ==
    {[kind |-> k, package_json |-> NoPackageJson, app_json |-> NoAppJson,
      files |-> {}] : k \in {"missing", "file"}}
    \cup {[kind |-> "dir", package_json |-> p, app_json |-> a, files |-> f]
            : p \in PackageJsons, a \in AppJsons, f \in FileSets}

Failures == {Exit(1, <<>>), TimedOut, LaunchFailed}
VersionOutcomes == {Exit(0, <<"5", "1">>)} \cup Failures
ConfigOutcomes  ==
    {Exit(0, <<"{sdk}">>), Exit(0, <<"{}">>), Exit(0, <<"[]">>),
     Exit(0, <<"n", "o">>)} \cup Failures
CheckOutcomes   == {Exit(0, <<>>)} \cup Failures
ToolOutcomes    == {Exit(0, <<"v", "2">>), LaunchFailed}

----------------------------------------------------------------------------
(* validate_expo_build, statement by statement *)

InitValidator ==
    /\ build \in Builds
    /\ cwd \in Cwds
    /\ pc = "idle"
    /\ report = NoDoc
    /\ original_cwd = cwd
    /\ entry_cwd = cwd
    /\ ran = <<>>
    /\ chdirs = <<>>
    /\ RegistryIdle /\ RaceIdle /\ IdsIdle /\ BundleIdle

others == <<registry_vars, race_vars, id_vars, bundle_vars>>

\* The report is built (node and npm are asked their versions) and the
\* build path is checked
Begin ==
    /\ pc = "idle"
    /\ \E n \in ToolOutcomes, m \in ToolOutcomes :
          LET r0 == initial_report(BuildPath,
                        get_version("node --version", n),
                        get_version("npm --version", m), 0)
          IN IF ~path_exists(build)
             THEN /\ report' = add_error(r0, "Build path does not exist")
                  /\ pc' = "returned"
             ELSE /\ report' = r0
                  /\ pc' = "package_json"
    /\ ran' = ran \o <<"node --version", "npm --version">>
    /\ UNCHANGED <<build, cwd, original_cwd, entry_cwd, chdirs, others>>

CheckPackageJson ==
    /\ pc = "package_json"
    /\ report' = check_package_json(report, build.package_json)
    /\ pc' = "app_json"
    /\ UNCHANGED <<build, cwd, original_cwd, entry_cwd, ran, chdirs, others>>

CheckAppJson ==
    /\ pc = "app_json"
    /\ report' = check_app_json(report, build.app_json)
    /\ pc' = "mandatory_files"
    /\ UNCHANGED <<build, cwd, original_cwd, entry_cwd, ran, chdirs, others>>

CheckMandatoryFiles ==
    /\ pc = "mandatory_files"
    /\ report' = check_mandatory_files(report, build.files)
    /\ pc' = "chdir"
    /\ UNCHANGED <<build, cwd, original_cwd, entry_cwd, ran, chdirs, others>>

\* original_cwd = Path.cwd(); os.chdir(build_path), which raises unless the
\* path is a directory
Chdir ==
    /\ pc = "chdir"
    /\ original_cwd' = cwd
    /\ chdirs' = Append(chdirs, BuildPath)
    /\ IF build.kind = "dir"
       THEN /\ cwd' = BuildPath
            /\ report' = report
            /\ pc' = "expo_version"
       ELSE /\ cwd' = cwd
            /\ report' = add_error(report, "Error during command execution")
            /\ pc' = "finally"
    /\ UNCHANGED <<build, entry_cwd, ran, others>>

ExpoVersion ==
    /\ pc = "expo_version"
    /\ \E o \in VersionOutcomes :
          report' = after_expo_version(report, run_command("npx expo --version", o))
    /\ ran' = Append(ran, "npx expo --version")
    /\ pc' = "expo_config"
    /\ UNCHANGED <<build, cwd, original_cwd, entry_cwd, chdirs, others>>

ExpoConfig ==
    /\ pc = "expo_config"
    /\ \E o \in ConfigOutcomes :
          report' = after_expo_config(report,
                        run_command("npx expo config --type public", o))
    /\ ran' = Append(ran, "npx expo config --type public")
    /\ pc' = "expo_install_check"
    /\ UNCHANGED <<build, cwd, original_cwd, entry_cwd, chdirs, others>>

ExpoInstallCheck ==
    /\ pc = "expo_install_check"
    /\ \E o \in CheckOutcomes :
          report' = after_expo_install_check(report,
                        run_command("npx expo install --check", o))
    /\ ran' = Append(ran, "npx expo install --check")
    /\ pc' = "expo_doctor"
    /\ UNCHANGED <<build, cwd, original_cwd, entry_cwd, chdirs, others>>

ExpoDoctor ==
    /\ pc = "expo_doctor"
    /\ \E o \in CheckOutcomes :
          report' = after_expo_doctor(report, run_command("npx expo-doctor", o))
    /\ ran' = Append(ran, "npx expo-doctor")
    /\ pc' = "finally"
    /\ UNCHANGED <<build, cwd, original_cwd, entry_cwd, chdirs, others>>

\* A KeyboardInterrupt while a command of the sequence is awaited: no
\* except clause takes it, the finally block runs, and it leaves the function
Interrupt ==
    /\ pc \in {"expo_version", "expo_config", "expo_install_check", "expo_doctor"}
    /\ pc' = "finally_raising"
    /\ UNCHANGED <<build, report, cwd, original_cwd, entry_cwd, ran, chdirs, others>>

Finally ==
    /\ pc \in {"finally", "finally_raising"}
    /\ cwd' = restore_cwd(original_cwd, cwd)
    /\ chdirs' = Append(chdirs, cwd')
    /\ pc' = IF pc = "finally" THEN "returned" ELSE "raised"
    /\ UNCHANGED <<build, report, original_cwd, entry_cwd, ran, others>>

NextValidator ==
    \/ Begin \/ CheckPackageJson \/ CheckAppJson \/ CheckMandatoryFiles
    \/ Chdir \/ ExpoVersion \/ ExpoConfig \/ ExpoInstallCheck \/ ExpoDoctor
    \/ Interrupt \/ Finally

SpecValidator == InitValidator /\ [][NextValidator]_vars

----------------------------------------------------------------------------
(* Properties of validate_expo_build *)

expo_commands == {"npx expo --version", "npx expo config --type public",
                  "npx expo install --check", "npx expo-doctor"}

\* C6: for a build path that does not exist the report returned has exactly
\* one error, every validation flag false, and commands, warnings, the
\* dependency lists and the expo fields at their defaults; no command of the
\* diagnostic sequence is run and the working directory is never changed.
C6_MissingPathReport ==
    build.kind = "missing" =>
        /\ \A i \in 1..Len(ran) : ran[i] \notin expo_commands
        /\ chdirs = <<>>
        /\ cwd = entry_cwd
        /\ pc \in {"idle", "returned"}
        /\ pc = "returned" =>
              /\ Len(report.errors) = 1
              /\ \A f \in DOMAIN report.validation : report.validation[f] = FALSE
              /\ report.commands = <<>>
              /\ report.warnings = <<>>
              /\ report.dependencies.expoModules = <<>>
              /\ report.dependencies.issues = <<>>
              /\ report.expo = [version |-> None, sdkVersion |-> None,
                                config |-> NoDoc]

\* validate_expo_build has returned for a path that does not exist.
C6_Witness ==
    /\ build.kind = "missing"
    /\ pc = "returned"
    /\ Len(report.errors) = 1

\* A build directory with a well-formed package.json, an app.json with
\* compliant iOS and Android identifiers, and a recognised entry point
well_formed_build(b) ==
    /\ b.kind = "dir"
    /\ b.package_json.kind = "object"
    /\ b.app_json.kind = "object"
    /\ startswith(b.app_json.ios_bundle, appfactory_prefix)
    /\ startswith(b.app_json.android_package, appfactory_prefix)
    /\ \E i \in 1..Len(mandatory_files) : mandatory_files[i] \in b.files

all_commands_failed(rep) ==
    /\ Len(rep.commands) = 4
    /\ \A i \in 1..4 : ~rep.commands[i].result.success

\* C7: for a well-formed build directory the report returned has no errors
\* whatever the external commands did; when all of them failed, commands
\* holds expo_version, expo_config, expo_install_check and expo_doctor, each
\* with success false, and the failures show as warnings only.
C7_CommandFailuresAreNotErrors ==
    (pc = "returned" /\ well_formed_build(build)) =>
        /\ report.errors = <<>>
        /\ [i \in 1..Len(report.commands) |-> report.commands[i].name]
              = <<"expo_version", "expo_config", "expo_install_check", "expo_doctor">>
        /\ \A i \in 1..4 :
              report.commands[i].result.success
                 <=> (report.commands[i].result.returncode = 0)
        /\ all_commands_failed(report) =>
              /\ report.warnings # <<>>
              /\ report.validation.expoInstallCheck = FALSE
              /\ report.expo = [version |-> None, sdkVersion |-> None,
                                config |-> NoDoc]

\* A well-formed build whose four commands failed: one did not launch, one
\* timed out, one exited non-zero.
C7_Witness ==
    /\ pc = "returned"
    /\ well_formed_build(build)
    /\ all_commands_failed(report)
    /\ report.commands[1].result.stderr = "str(e)"
    /\ report.commands[2].result.stderr = "Command timed out after 30s"
    /\ report.commands[3].result.returncode = 1

\* C8: when validate_expo_build is left, by return or by an exception, the
\* working directory is the one it was called in.
C8_WorkingDirectoryRestored ==
    pc \in {"returned", "raised"} => cwd = entry_cwd

\* The call went into the build directory, ran the commands and returned.
C8_Witness ==
    /\ pc = "returned"
    /\ Len(chdirs) = 2
    /\ chdirs[1] # entry_cwd
    /\ Len(report.commands) = 4

----------------------------------------------------------------------------
(* Two callers of register_build at once: the load and the save of a call
   are separate steps on the shared file, with nothing held in between *)

Callers == {1, 2}

IdleCaller == [pc |-> "idle"]

InitRace ==
    /\ disk \in {Absent, json_dump(empty_registry(0))}
    /\ now = 1
    /\ call = NoCall
    /\ procs = [p \in Callers |-> IdleCaller]
    /\ IdsIdle /\ ValidatorIdle /\ BundleIdle

\* Lines 108-158 of a call: load the registry, find, update or append
LoadAndUpdate(p) ==
    /\ procs[p].pc = "idle"
    /\ \E a \in PipelineCalls \cup DreamCalls, w \in WriteOutcomes :
          /\ disk.kind = "absent" \/ w = "ok"
          /\ LET loaded   == load_build_registry(disk, now, w)
                 build_id == generate_build_id(a.build_path,
                                 py_or(a.dream_prompt_hash, a.run_id))
                 found    == find_existing(loaded.value.builds, build_id)
             IN /\ disk' = loaded.file
                /\ procs' = [procs EXCEPT ![p] =
                      IF loaded.exc # "none"
                      THEN [pc |-> "raised", exc |-> loaded.exc]
                      ELSE [pc |-> "loaded", args |-> a, build_id |-> build_id,
                            loaded_at |-> now,
                            registry |-> [loaded.value EXCEPT !.builds =
                                update_or_append(@, found.index,
                                                 build_entry(a, build_id, now))]]]
    /\ now' = now + 1
    /\ UNCHANGED <<call, id_vars, validator_vars, bundle_vars>>

\* Lines 160-165 of a call: save what this caller holds, return the outcome
SaveAndReturn(p) ==
    /\ procs[p].pc = "loaded"
    /\ \E w \in WriteOutcomes :
          LET saved == save_build_registry(procs[p].registry, disk, now, w) IN
             /\ disk' = saved.file
             /\ procs' = [procs EXCEPT ![p] =
                   [pc |-> "done", args |-> @.args, build_id |-> @.build_id,
                    loaded_at |-> @.loaded_at, registry |-> @.registry,
                    saved_at |-> now, success |-> saved.ret]]
    /\ now' = now + 1
    /\ UNCHANGED <<call, id_vars, validator_vars, bundle_vars>>

NextRace == \E p \in Callers : LoadAndUpdate(p) \/ SaveAndReturn(p)

SpecRace == InitRace /\ [][NextRace]_vars

\* Both calls have returned success for distinct buildIds, and both loaded
\* before either saved
both_loaded_then_both_saved(first, last) ==
    /\ procs[first].pc = "done" /\ procs[last].pc = "done"
    /\ procs[first].success /\ procs[last].success
    /\ procs[first].build_id # procs[last].build_id
    /\ procs[first].loaded_at < procs[last].saved_at
    /\ procs[last].loaded_at < procs[first].saved_at
    /\ procs[first].saved_at < procs[last].saved_at

\* C9: register calls are not serialised.  Whenever two calls for distinct
\* buildIds both load before either saves and both return success, the
\* registry file ends with what the call that saved last held: its own
\* record, and not the record of the other call.
C9_LastWriteWins ==
    \A first \in Callers, last \in Callers :
        both_loaded_then_both_saved(first, last) =>
            /\ persisted_builds(disk) = procs[last].registry.builds
            /\ procs[last].build_id \in ids_of(persisted_builds(disk))
            /\ procs[first].build_id \notin ids_of(persisted_builds(disk))
            /\ Len(persisted_builds(disk)) = 1

\* The interleaving load, load, save, save with both calls successful.
C9_Witness ==
    /\ both_loaded_then_both_saved(1, 2)
    /\ Len(persisted_builds(disk)) = 1
    /\ persisted_builds(disk)[1].buildId = procs[2].build_id

----------------------------------------------------------------------------
(* Records over time *)

\* C11: records are never removed.  Across register calls the number of
\* persisted records never decreases, and every buildId persisted before a
\* call is still found by get_build_by_id after it.
C11_RecordsNeverRemoved ==
    [][/\ Len(persisted_builds(disk')) >= Len(persisted_builds(disk))
       /\ \A id \in ids_of(persisted_builds(disk)) :
             get_build_by_id(disk', id, now', "ok").found]_vars

\* C12: register never raises.  Whatever the registry file holds (absent,
\* unreadable, not JSON, JSON without a builds key or with records lacking
\* buildId) and whether or not the write fails, the call returns a boolean,
\* the outcome of the save step.
C12_RegisterNeverRaises ==
    call.op = "register" =>
        /\ call.exc = "none"
        /\ call.success \in BOOLEAN
        /\ call.success <=> (call.write = "ok")

====
